---- MODULE Spec2Model ----
(***************************************************************************)
(* Model of chat_engine.py: the ChatEngine class.                          *)
(*                                                                         *)
(* ChatEngine.__init__ reads the API credential from the process           *)
(* environment and creates the conversation history, the data manager and  *)
(* the LLM chain.  process_user_input records the user turn, asks          *)
(* generate_best_practice for the answers of the similar question/answer   *)
(* records, runs the chain and records the bot turn.  The retriever        *)
(* (data_manager.find) and the completion client (chain.run) are external: *)
(* every outcome they can have (a value, or a raised error) is an input    *)
(* chosen with \E.                                                         *)
(*                                                                         *)
(* process_user_input is modelled statement by statement (pc names the     *)
(* line about to run), so that the order of its effects is observable.     *)
(***************************************************************************)
EXTENDS Integers, Sequences, FiniteSets, TLC

\* ------------------------------------------------------------------ bounds
\* Calls of process_user_input made on the engine.
MaxCalls == 2
\* Records in one retriever result.
MaxRecs == 2

\* ------------------------------------------------------------------ inputs
\* message argument of process_user_input / generate_best_practice.
Messages == {"m1", "m2"}
\* Strings chain.run can return.
Responses == {"r1", "r2"}
\* Values of the question and answer fields of a retrieved record.
Questions == {"q1", "q2"}
Answers == {"a1", "a2"}
\* Exception subclasses data_manager.find can raise.
RetrieverErrors == {"ConnectionError", "ValueError"}
\* Exception subclasses chain.run can raise.
CompletionErrors == {"APIError"}

\* os.environ after load_dotenv(): the credential is there or it is not.
Environs == {[k \in S |-> "sk-key"] : S \in SUBSET {"OPENAI_API_KEY"}}

\* A retrieved record is a dict; a well-formed one has both fields (the
\* pairs q1/a1 and q2/a2), a malformed one lacks "answer".
WellFormed == {[question |-> "q1", answer |-> "a1"],
               [question |-> "q2", answer |-> "a2"]}
Malformed == {[question |-> "q1"]}
Records == WellFormed \cup Malformed

SeqUpTo(S, n) == UNION {[1..k -> S] : k \in 0..n}

\* What one data_manager.find call can do: raise, return something that
\* cannot be iterated (e.g. None), or return a list of records.
FindOutcomes ==
    {[raises |-> e, iterable |-> FALSE, items |-> <<>>] : e \in RetrieverErrors}
    \cup {[raises |-> "none", iterable |-> FALSE, items |-> <<>>]}
    \cup {[raises |-> "none", iterable |-> TRUE, items |-> s] :
            s \in SeqUpTo(Records, MaxRecs)}

\* ------------------------------------------------------------------- state
VARIABLES
    environ,          \* os.environ
    phase,            \* "new" | "ready" | "exited"
    stderr,           \* text written to sys.stderr
    exit_status,      \* status given to sys.exit, -1 while running
    api_key,          \* openai.api_key
    attrs,            \* attributes of self created by __init__
    chat_history,     \* self.chat_history: sequence of [role, text]
    origin,           \* for each turn, the process_user_input call that added it
    pc,               \* "idle" | "line65" | "line68"
    message,          \* argument of the running process_user_input call
    best_practices,   \* local best_practices of process_user_input
    gbp,              \* the last generate_best_practice call
    run,              \* the last chain.run call
    call,             \* the last process_user_input call
    calls,            \* process_user_input calls started
    successes,        \* process_user_input calls that returned
    run_failures,     \* process_user_input calls ended by chain.run raising
    find_calls,       \* data_manager.find calls since the last entry
    run_calls         \* chain.run calls since the last entry

vars == <<environ, phase, stderr, exit_status, api_key, attrs, chat_history,
          origin, pc, message, best_practices, gbp, run, call, calls,
          successes, run_failures, find_calls, run_calls>>

NoFind == [raises |-> "none", iterable |-> TRUE, items |-> <<>>]
NoGbp == [status |-> "none", query |-> "none", found |-> NoFind,
          value |-> <<>>, exc |-> "none", printed |-> "none"]
NoRun == [status |-> "none", args |-> [message |-> "none", best_practice |-> <<>>],
          value |-> "none", exc |-> "none"]
NoCall == [status |-> "none", message |-> "none", h0 |-> <<>>,
           value |-> "none", exc |-> "none"]

\* ----------------------------------------------------------------- helpers
\* ChatHistory.add_message(role, text): append one turn.
add_message(history, role, text) == Append(history, [role |-> role, text |-> text])

\* except Exception: every error class the collaborators raise, and the
\* KeyError / TypeError of the comprehension, derive from Exception.
ExceptionSubclasses ==
    RetrieverErrors \cup CompletionErrors \cup {"KeyError", "TypeError"}

CaughtOnlyConnectionError(exc) == exc = "ConnectionError"

Caught(exc) == exc \in ExceptionSubclasses

\* [response["answer"] for response in similar_responses]: left to right;
\* a record without "answer" raises KeyError and the partial list is lost.
RECURSIVE ListCompQuestion(_, _)
ListCompQuestion(items, acc) ==
    IF items = <<>> THEN [raises |-> "none", value |-> acc]
    ELSE IF "answer" \in DOMAIN Head(items)
         THEN ListCompQuestion(Tail(items), Append(acc, Head(items).question))
         ELSE [raises |-> "KeyError", value |-> <<>>]

RECURSIVE ListCompSkip(_, _)
ListCompSkip(items, acc) ==
    IF items = <<>> THEN [raises |-> "none", value |-> acc]
    ELSE IF "answer" \in DOMAIN Head(items)
         THEN ListCompSkip(Tail(items), Append(acc, Head(items).answer))
         ELSE [raises |-> "none", value |-> acc]

RECURSIVE ListComp(_, _)
ListComp(items, acc) ==
    IF items = <<>> THEN [raises |-> "none", value |-> acc]
    ELSE IF "answer" \in DOMAIN Head(items)
         THEN ListComp(Tail(items), Append(acc, Head(items).answer))
         ELSE [raises |-> "KeyError", value |-> <<>>]

\* The try body of generate_best_practice on one outcome of find.
TryBody(found) ==
    IF found.raises # "none" THEN [raises |-> found.raises, value |-> <<>>]
    ELSE IF ~found.iterable THEN [raises |-> "TypeError", value |-> <<>>]
    ELSE ListComp(found.items, <<>>)

\* generate_best_practice(user_message), given what find does for it:
\* the value returned, the exception that leaves it, the error printed.
generate_best_practice(found) ==
    LET tried == TryBody(found)
    IN  IF tried.raises = "none"
        THEN [raises |-> "none", value |-> tried.value, printed |-> "none"]
        ELSE IF Caught(tried.raises)
        THEN [raises |-> "none", value |-> <<>>, printed |-> tried.raises]
        ELSE [raises |-> tried.raises, value |-> <<>>, printed |-> "none"]

\* The record of one generate_best_practice(query) call.
GbpRecord(query, found) ==
    LET g == generate_best_practice(found)
    IN  [status |-> IF g.raises = "none" THEN "returned" ELSE "raised",
         query |-> query, found |-> found, value |-> g.value,
         exc |-> g.raises, printed |-> g.printed]

\* Keyword arguments of self.chain.run(...).
RunArgsNoContext(msg, bp) == [message |-> msg, best_practice |-> <<>>]

RunArgs(msg, bp) == [message |-> msg, best_practice |-> bp]

\* -------------------------------------------------------------------- Init
Init ==
    /\ environ \in Environs
    /\ phase = "new"
    /\ stderr = ""
    /\ exit_status = -1
    /\ api_key = "unset"
    /\ attrs = {}
    /\ chat_history = <<>>
    /\ origin = <<>>
    /\ pc = "idle"
    /\ message = "none"
    /\ best_practices = <<>>
    /\ gbp = NoGbp
    /\ run = NoRun
    /\ call = NoCall
    /\ calls = 0
    /\ successes = 0
    /\ run_failures = 0
    /\ find_calls = 0
    /\ run_calls = 0

\* ----------------------------------------------------------------- actions
\* ChatEngine.__init__ without the sys.exit(1): construction goes on.
ChatEngineInitNoExit ==
    /\ phase = "new"
    /\ IF "OPENAI_API_KEY" \in DOMAIN environ
       THEN api_key' = environ["OPENAI_API_KEY"] /\ stderr' = stderr
       ELSE api_key' = api_key /\ stderr' = "API key not found."
    /\ attrs' = {"chat_history", "data_manager", "system_template",
                 "system_prompt", "chain"}
    /\ phase' = "ready"
    /\ UNCHANGED <<environ, exit_status, chat_history, origin, pc, message,
                   best_practices, gbp, run, call, calls, successes,
                   run_failures, find_calls, run_calls>>

\* ChatEngine.__init__
ChatEngineInit ==
    /\ phase = "new"
    /\ IF "OPENAI_API_KEY" \in DOMAIN environ
       THEN /\ api_key' = environ["OPENAI_API_KEY"]
            /\ attrs' = {"chat_history", "data_manager", "system_template",
                         "system_prompt", "chain"}
            /\ phase' = "ready"
            /\ UNCHANGED <<stderr, exit_status>>
       ELSE /\ stderr' = "API key not found."
            /\ exit_status' = 1
            /\ phase' = "exited"
            /\ UNCHANGED <<api_key, attrs>>
    /\ UNCHANGED <<environ, chat_history, origin, pc, message,
                   best_practices, gbp, run, call, calls, successes,
                   run_failures, find_calls, run_calls>>

\* process_user_input entered without recording the user turn.
AddUserTurnDeferred(m) ==
    /\ phase = "ready" /\ pc = "idle" /\ calls < MaxCalls
    /\ calls' = calls + 1
    /\ message' = m
    /\ call' = [status |-> "running", message |-> m, h0 |-> chat_history,
                value |-> "none", exc |-> "none"]
    /\ best_practices' = <<>>
    /\ gbp' = NoGbp /\ run' = NoRun
    /\ find_calls' = 0 /\ run_calls' = 0
    /\ pc' = "line65"
    /\ UNCHANGED <<environ, phase, stderr, exit_status, api_key, attrs,
                   chat_history, origin, successes, run_failures>>

\* process_user_input(message), line 62: the user turn is recorded.
AddUserTurn(m) ==
    /\ phase = "ready" /\ pc = "idle" /\ calls < MaxCalls
    /\ calls' = calls + 1
    /\ message' = m
    /\ call' = [status |-> "running", message |-> m, h0 |-> chat_history,
                value |-> "none", exc |-> "none"]
    /\ chat_history' = add_message(chat_history, "user", m)
    /\ origin' = Append(origin, calls + 1)
    /\ best_practices' = <<>>
    /\ gbp' = NoGbp /\ run' = NoRun
    /\ find_calls' = 0 /\ run_calls' = 0
    /\ pc' = "line65"
    /\ UNCHANGED <<environ, phase, stderr, exit_status, api_key, attrs,
                   successes, run_failures>>

\* Line 65 with a retrieval failure ending the call.
RetrieveAbortOnFailure(found) ==
    /\ pc = "line65"
    /\ find_calls' = find_calls + 1
    /\ gbp' = GbpRecord(message, found)
    /\ IF gbp'.status = "returned" /\ gbp'.printed = "none"
       THEN /\ best_practices' = gbp'.value
            /\ pc' = "line68"
            /\ UNCHANGED <<call, message>>
       ELSE /\ best_practices' = <<>>
            /\ message' = "none"
            /\ pc' = "idle"
            /\ call' = [call EXCEPT !.status = "raised", !.exc = found.raises]
    /\ UNCHANGED <<environ, phase, stderr, exit_status, api_key, attrs,
                   chat_history, origin, run, calls, successes,
                   run_failures, run_calls>>

\* Line 65: best_practices = self.generate_best_practice(message).
Retrieve(found) ==
    /\ pc = "line65"
    /\ find_calls' = find_calls + 1
    /\ gbp' = GbpRecord(message, found)
    /\ IF gbp'.status = "returned"
       THEN /\ best_practices' = gbp'.value
            /\ pc' = "line68"
            /\ UNCHANGED <<call, message>>
       ELSE /\ best_practices' = <<>>
            /\ message' = "none"
            /\ pc' = "idle"
            /\ call' = [call EXCEPT !.status = "raised", !.exc = gbp'.exc]
    /\ UNCHANGED <<environ, phase, stderr, exit_status, api_key, attrs,
                   chat_history, origin, run, calls, successes,
                   run_failures, run_calls>>

\* Lines 68-71 with the bot turn never recorded.
RunReturnsNoBotTurn(r) ==
    /\ pc = "line68"
    /\ run_calls' = run_calls + 1
    /\ run' = [status |-> "returned", args |-> RunArgs(message, best_practices),
               value |-> r, exc |-> "none"]
    /\ call' = [call EXCEPT !.status = "returned", !.value = r]
    /\ successes' = successes + 1
    /\ pc' = "idle"
    /\ message' = "none" /\ best_practices' = <<>>
    /\ UNCHANGED <<environ, phase, stderr, exit_status, api_key, attrs,
                   chat_history, origin, gbp, calls,
                   run_failures, find_calls>>

\* Lines 68-71, chain.run returns r: the bot turn is recorded, r returned.
RunReturns(r) ==
    /\ pc = "line68"
    /\ run_calls' = run_calls + 1
    /\ run' = [status |-> "returned", args |-> RunArgs(message, best_practices),
               value |-> r, exc |-> "none"]
    /\ chat_history' = add_message(chat_history, "bot", r)
    /\ origin' = Append(origin, calls)
    /\ call' = [call EXCEPT !.status = "returned", !.value = r]
    /\ successes' = successes + 1
    /\ pc' = "idle"
    /\ message' = "none" /\ best_practices' = <<>>
    /\ UNCHANGED <<environ, phase, stderr, exit_status, api_key, attrs,
                   gbp, calls, run_failures, find_calls>>

\* Line 68 with the error swallowed and a fallback answer recorded.
RunRaisesFallback(e) ==
    /\ pc = "line68"
    /\ run_calls' = run_calls + 1
    /\ run' = [status |-> "raised", args |-> RunArgs(message, best_practices),
               value |-> "none", exc |-> e]
    /\ chat_history' = add_message(chat_history, "bot", "r1")
    /\ origin' = Append(origin, calls)
    /\ call' = [call EXCEPT !.status = "returned", !.value = "r1"]
    /\ successes' = successes + 1
    /\ pc' = "idle"
    /\ message' = "none" /\ best_practices' = <<>>
    /\ UNCHANGED <<environ, phase, stderr, exit_status, api_key, attrs,
                   gbp, calls, run_failures, find_calls>>

\* Line 68 with the user turn rolled back when chain.run raises.
RunRaisesRollback(e) ==
    /\ pc = "line68"
    /\ run_calls' = run_calls + 1
    /\ run' = [status |-> "raised", args |-> RunArgs(message, best_practices),
               value |-> "none", exc |-> e]
    /\ chat_history' = SubSeq(chat_history, 1, Len(chat_history) - 1)
    /\ origin' = SubSeq(origin, 1, Len(origin) - 1)
    /\ call' = [call EXCEPT !.status = "raised", !.exc = e]
    /\ run_failures' = run_failures + 1
    /\ pc' = "idle"
    /\ message' = "none" /\ best_practices' = <<>>
    /\ UNCHANGED <<environ, phase, stderr, exit_status, api_key, attrs,
                   gbp, calls, successes, find_calls>>

\* Line 68, chain.run raises e: nothing catches it, the call ends with e.
RunRaises(e) ==
    /\ pc = "line68"
    /\ run_calls' = run_calls + 1
    /\ run' = [status |-> "raised", args |-> RunArgs(message, best_practices),
               value |-> "none", exc |-> e]
    /\ call' = [call EXCEPT !.status = "raised", !.exc = e]
    /\ run_failures' = run_failures + 1
    /\ pc' = "idle"
    /\ message' = "none" /\ best_practices' = <<>>
    /\ UNCHANGED <<environ, phase, stderr, exit_status, api_key, attrs,
                   chat_history, origin, gbp, calls,
                   successes, find_calls>>

\* generate_best_practice(user_message) called directly on the engine.
GenerateBestPracticeCall(m, found) ==
    /\ phase = "ready" /\ pc = "idle"
    /\ find_calls' = 1 /\ run_calls' = 0
    /\ gbp' = GbpRecord(m, found)
    /\ run' = NoRun /\ call' = NoCall
    /\ UNCHANGED <<environ, phase, stderr, exit_status, api_key, attrs,
                   chat_history, origin, pc, message, best_practices, calls,
                   successes, run_failures>>

Next ==
    \/ ChatEngineInit
    \/ \E m \in Messages : AddUserTurn(m)
    \/ \E found \in FindOutcomes : Retrieve(found)
    \/ \E r \in Responses : RunReturns(r)
    \/ \E e \in CompletionErrors : RunRaises(e)
    \/ \E m \in Messages, found \in FindOutcomes : GenerateBestPracticeCall(m, found)

Spec == Init /\ [][Next]_vars

TypeOK ==
    /\ phase \in {"new", "ready", "exited"}
    /\ pc \in {"idle", "line65", "line68"}
    /\ Len(origin) = Len(chat_history)
    /\ \A i \in 1..Len(chat_history) : chat_history[i].role \in {"user", "bot"}

\* ------------------------------------------------------------------ claims
IsPrefix(s, t) == Len(s) <= Len(t) /\ SubSeq(t, 1, Len(s)) = s

UserTurn(m) == [role |-> "user", text |-> m]
BotTurn(r) == [role |-> "bot", text |-> r]

\* The last generate_best_practice call was made directly, not by
\* process_user_input.
Standalone == gbp.status # "none" /\ call.status = "none"

AllWellFormed(items) == \A i \in 1..Len(items) : "answer" \in DOMAIN items[i]

\* C1: a process_user_input(m) call that returns r leaves the history equal
\* to the history h before the call followed by exactly the two turns
\* (user, m), (bot, r), in this order; its length grew by exactly 2.
C1_SuccessAppendsUserThenBot ==
    call.status = "returned" =>
        /\ call.value \in Responses
        /\ chat_history = call.h0 \o <<UserTurn(call.message), BotTurn(call.value)>>
        /\ Len(chat_history) = Len(call.h0) + 2

C1_Witness ==
    /\ call.status = "returned"
    /\ Len(call.h0) = 2
    /\ call.message # call.h0[1].text

\* C2: when data_manager.find raises, whatever the error class,
\* generate_best_practice returns the empty list, and no exception of the
\* retriever leaves generate_best_practice or process_user_input.
C2_RetrieverErrorGivesEmpty ==
    (gbp.status # "none" /\ gbp.found.raises # "none") =>
        /\ gbp.status = "returned"
        /\ gbp.value = <<>>
        /\ gbp.exc = "none"
        /\ call.status = "raised" => (run.status = "raised" /\ call.exc = run.exc)

C2_Witness ==
    /\ Standalone
    /\ gbp.found.raises = "ValueError"
    /\ gbp.status = "returned"

\* C3: when find returns well-formed records, generate_best_practice returns
\* a list of the same length whose i-th element is the answer of the i-th
\* record (order kept, nothing dropped or duplicated), never a question.
C3_AnswersInRetrieverOrder ==
    (gbp.status # "none" /\ gbp.found.raises = "none" /\ gbp.found.iterable
        /\ AllWellFormed(gbp.found.items)) =>
        /\ gbp.status = "returned"
        /\ Len(gbp.value) = Len(gbp.found.items)
        /\ \A i \in 1..Len(gbp.value) :
              /\ gbp.value[i] = gbp.found.items[i].answer
              /\ gbp.value[i] \in Answers
              /\ gbp.value[i] \notin Questions

C3_Witness ==
    /\ gbp.status = "returned"
    /\ gbp.found.items = <<[question |-> "q2", answer |-> "a2"],
                           [question |-> "q1", answer |-> "a1"]>>
    /\ gbp.value = <<"a2", "a1">>

\* C4: when find raises during process_user_input(m) the call goes on:
\* chain.run is still called, with best_practice = [], and when it returns r
\* the call returns r and the history is the prior history followed by
\* (user, m), (bot, r).
C4_RetrieverFailureContinues ==
    (call.status # "none" /\ gbp.status # "none" /\ gbp.found.raises # "none") =>
        \/ /\ pc = "line68"
           /\ call.status = "running"
           /\ best_practices = <<>>
        \/ /\ pc = "idle"
           /\ run.status # "none"
           /\ run_calls = 1
           /\ run.args.best_practice = <<>>
           /\ run.status = "returned" =>
                 /\ call.status = "returned"
                 /\ call.value = run.value
                 /\ chat_history =
                      call.h0 \o <<UserTurn(call.message), BotTurn(run.value)>>

C4_Witness ==
    /\ call.status = "returned"
    /\ gbp.found.raises = "ConnectionError"
    /\ run.status = "returned"
    /\ run.args.best_practice = <<>>
    /\ Len(chat_history) = Len(call.h0) + 2

\* C5: when chain.run raises, the process_user_input call ends with that
\* same error; chain.run was called exactly once in the call, nothing is
\* returned and no bot turn is recorded.
C5_CompletionFailureIsFatal ==
    run.status = "raised" =>
        /\ call.status = "raised"
        /\ call.exc = run.exc
        /\ call.value = "none"
        /\ run_calls = 1
        /\ Len(chat_history) = Len(call.h0) + 1
        /\ chat_history[Len(chat_history)].role = "user"

C5_Witness ==
    /\ run.status = "raised"
    /\ call.status = "raised"
    /\ call.exc = "APIError"
    /\ gbp.value # <<>>

\* C6: chain.run is called with message = m unchanged and best_practice =
\* the list generate_best_practice(m) returned in this call; the string it
\* returns is the value process_user_input returns and the text of the bot
\* turn the call appends.
C6_RunGetsMessageAndBestPractice ==
    run.status # "none" =>
        /\ run.args.message = call.message
        /\ gbp.status = "returned"
        /\ gbp.query = call.message
        /\ run.args.best_practice = gbp.value
        /\ run.status = "returned" =>
              /\ call.status = "returned"
              /\ call.value = run.value
              /\ chat_history[Len(chat_history)] = BotTurn(run.value)

C6_Witness ==
    /\ run.status = "returned"
    /\ run.args = [message |-> "m2", best_practice |-> <<"a1">>]
    /\ call.value = "r2"

\* C7: when the credential is not in the environment at construction, the
\* process writes "API key not found." to stderr and exits with a non-zero
\* status; nothing of the engine is created and neither find nor chain.run
\* is ever called.
C7_MissingKeyExits ==
    ("OPENAI_API_KEY" \notin DOMAIN environ /\ phase # "new") =>
        /\ phase = "exited"
        /\ stderr = "API key not found."
        /\ exit_status > 0
        /\ attrs = {}
        /\ api_key = "unset"
        /\ chat_history = <<>>
        /\ calls = 0 /\ find_calls = 0 /\ run_calls = 0
        /\ gbp = NoGbp /\ run = NoRun /\ call = NoCall

C7_Witness ==
    /\ "OPENAI_API_KEY" \notin DOMAIN environ
    /\ phase = "exited"
    /\ exit_status = 1

\* C8: the history is append-only: in every step the history before is a
\* prefix of the history after (turns keep position, role and text, the
\* length never decreases), and a direct generate_best_practice call leaves
\* it unchanged.
C8_HistoryAppendOnly ==
    [][/\ IsPrefix(chat_history, chat_history')
       /\ (pc = "idle" /\ pc' = "idle" /\ phase = "ready") =>
              chat_history' = chat_history]_vars

C8_Witness ==
    /\ Standalone
    /\ successes = 1 /\ run_failures = 1
    /\ Len(chat_history) = 3

\* C9: a malformed retriever result (not iterable, or some record without
\* "answer") gives the empty list, not the answers of the well-formed
\* records before the malformed one, and no exception reaches the caller.
C9_MalformedResultGivesEmpty ==
    (gbp.status # "none" /\ gbp.found.raises = "none"
        /\ (~gbp.found.iterable \/ ~AllWellFormed(gbp.found.items))) =>
        /\ gbp.status = "returned"
        /\ gbp.value = <<>>
        /\ gbp.exc = "none"
        /\ gbp.printed \in {"KeyError", "TypeError"}
        /\ call.status = "raised" => (run.status = "raised" /\ call.exc = run.exc)

C9_Witness ==
    /\ gbp.status = "returned"
    /\ gbp.found.items = <<[question |-> "q1", answer |-> "a1"],
                           [question |-> "q1"]>>
    /\ gbp.value = <<>>

NumRole(role) ==
    Cardinality({i \in 1..Len(chat_history) : chat_history[i].role = role})

\* C10: the user turn is recorded before find and chain.run are called and
\* stays when chain.run raises: such a call leaves the history exactly one
\* turn longer, ending in (user, m).  After s returned calls and f calls
\* ended by chain.run the length is 2*s + f, every bot turn directly follows
\* the user turn of the same call, and bot turns never outnumber user turns.
C10_UserTurnFirstAndKept ==
    /\ pc = "line65" =>
          /\ find_calls = 0 /\ run_calls = 0
          /\ chat_history = Append(call.h0, UserTurn(message))
    /\ pc = "line68" =>
          /\ find_calls = 1 /\ run_calls = 0
          /\ chat_history = Append(call.h0, UserTurn(message))
    /\ call.status = "raised" =>
          chat_history = Append(call.h0, UserTurn(call.message))
    /\ Len(chat_history) =
          2 * successes + run_failures + (IF pc = "idle" THEN 0 ELSE 1)
    /\ calls = successes + run_failures + (IF pc = "idle" THEN 0 ELSE 1)
    /\ \A i \in 1..Len(chat_history) :
          chat_history[i].role = "bot" =>
              /\ i > 1
              /\ chat_history[i - 1].role = "user"
              /\ origin[i - 1] = origin[i]
    /\ NumRole("bot") <= NumRole("user")

C10_Witness ==
    /\ pc = "idle"
    /\ call.status = "raised"
    /\ successes = 1 /\ run_failures = 1
    /\ Len(chat_history) = 3
    /\ chat_history[3] = UserTurn("m2")

====
